---- MODULE Spec2Model ----
(***************************************************************************)
(* The beat-synced cut placement engine of src/utils/audioTrimmer.ts       *)
(* (generateRandomCuts and its helpers detectMeasures, detectDrops,        *)
(* generateEquidistantCuts and optimizeCutDurations).                      *)
(*                                                                         *)
(* Numbers.  The source computes with JavaScript numbers; the model        *)
(* computes with exact reals.  Every time is an integer number of ticks,   *)
(* one tick being 1/Scale of a centisecond, where Scale is chosen so that  *)
(* the only divisions whose result is stored in a cut (the equidistant     *)
(* interval duration/(count+1) and its 0.8 multiple) are exact.  Quotients *)
(* that are only compared (the mean measure duration, confidences,         *)
(* priorities, the ideal backfill time) are kept as fractions and compared *)
(* by cross-multiplication.  Intensities are integer percents.             *)
(***************************************************************************)
EXTENDS Integers, Sequences, FiniteSets, TLC

\* ------------------------------------------------------------------ bounds

\* Longest beat list drawn from the time grid.
MaxBeats == 3

\* Largest planCount of the contiguous range of plan counts.
MaxPlanCount == 5

\* ------------------------------------------------------------ arithmetic

Abs(x) == IF x < 0 THEN -x ELSE x

Min(a, b) == IF a < b THEN a ELSE b

Max(a, b) == IF a > b THEN a ELSE b

RECURSIVE GCD(_, _)
GCD(a, b) == IF b = 0 THEN a ELSE GCD(b, a % b)

\* The least common multiple of a finite set of positive integers.
RECURSIVE LCMOf(_)
LCMOf(S) == IF S = {} THEN 1
            ELSE LET x == CHOOSE y \in S : TRUE
                     l == LCMOf(S \ {x})
                 IN  (l * x) \div GCD(l, x)

\* A fraction n/d in lowest terms, d > 0.
Rat(n, d) == LET g == GCD(Abs(n), Abs(d))
                 s == IF d < 0 THEN -1 ELSE 1
             IN  [n |-> (s * n) \div g, d |-> (s * d) \div g]

RatLess(a, b) == a.n * b.d < b.n * a.d

RatMax(a, b) == IF RatLess(a, b) THEN b ELSE a

\* The plan counts the engine is called with: the contiguous range and one
\* count large enough for the 6-colour palette to wrap.
PlanCounts == (0 .. MaxPlanCount) \cup {8}

\* Ticks per centisecond.
Scale == 5 * LCMOf(PlanCounts \ {0})

\* n centiseconds, in ticks.
Cs(n) == n * Scale

\* One second, in ticks.
Sec == Cs(100)

\* ------------------------------------------------------------- sequences

RECURSIVE SumSeq(_)
SumSeq(s) == IF s = <<>> THEN 0 ELSE Head(s) + SumSeq(Tail(s))

\* Array.prototype.find on the elements a filter keeps: the first of them,
\* as a sequence of length 0 (undefined) or 1.
First(kept) == IF kept = <<>> THEN <<>> ELSE <<Head(kept)>>

\* Array.prototype.sort with a comparator (the sort is stable), where
\* before[i][j] iff the comparator is negative on (s[i], s[j]).  Element i
\* goes to the position after the elements that precede it and the earlier
\* elements equal to it.
StableSort(s, before) ==
    LET Rank(i) == 1 + Cardinality({j \in 1 .. Len(s) :
                           \/ before[j][i]
                           \/ (~before[i][j] /\ j < i)})
    IN  [k \in 1 .. Len(s) |-> s[CHOOSE i \in 1 .. Len(s) : Rank(i) = k]]

\* measureIntervals.sort((a, b) => a - b)
SortAscending(s) ==
    StableSort(s, [i \in 1 .. Len(s) |-> [j \in 1 .. Len(s) |-> s[i] < s[j]]])

\* ------------------------------------------------------------- constants

COLORS == <<"#F97316", "#3B82F6", "#10B981", "#8B5CF6", "#EF4444", "#F59E0B">>

\* A cut marker created with crypto.randomUUID(): ids are fresh numbers.
CutMarker(id, time, color, duration) ==
    [id |-> id, time |-> time, color |-> color, duration |-> duration]

\* A lead-time offset without the clamp.
LeadTimeUnclamped(startTime, beatTime, lead) == beatTime - lead

\* Math.max(startTime + 0.05, beatTime - lead): the lead-time offset of a cut
\* before its beat, clamped to the region start.
LeadTime(startTime, beatTime, lead) == Max(startTime + Cs(5), beatTime - lead)

IsStrong(beat) == beat.type = "strong"


\* --------------------------------------------------------- detectMeasures

\* Intervals between consecutive strong beats that lie in (0.8 s, 6 s).
MeasureIntervals(strongBeats) ==
    LET all == [i \in 1 .. Len(strongBeats) - 1 |->
                   strongBeats[i + 1].time - strongBeats[i].time]
    IN  SelectSeq(all, LAMBDA interval : interval > Cs(80) /\ interval < Cs(600))

\* The clustering loop over the sorted intervals: clusters closed so far and
\* the current cluster, after intervals 2 .. i have been examined.
RECURSIVE ClusterLoop(_, _)
ClusterLoop(sorted, i) ==
    IF i = 1 THEN [clusters |-> <<>>, currentCluster |-> <<sorted[1]>>]
    ELSE LET prev == ClusterLoop(sorted, i - 1)
             diff == sorted[i] - sorted[i - 1]
         IN  IF diff < Cs(30)
             THEN [clusters |-> prev.clusters,
                   currentCluster |-> Append(prev.currentCluster, sorted[i])]
             ELSE [clusters |-> Append(prev.clusters, prev.currentCluster),
                   currentCluster |-> <<sorted[i]>>]

Clusters(sorted) ==
    LET end == ClusterLoop(sorted, Len(sorted))
    IN  Append(end.clusters, end.currentCluster)

\* A reduce that keeps the last of the largest clusters.
RECURSIVE DominantClusterLast(_)
DominantClusterLast(clusters) ==
    IF clusters = <<>> THEN <<>>
    ELSE LET largest == DominantClusterLast(SubSeq(clusters, 1, Len(clusters) - 1))
             current == clusters[Len(clusters)]
         IN  IF Len(current) >= Len(largest) THEN current ELSE largest

\* clusters.reduce((largest, current) =>
\*     current.length > largest.length ? current : largest, [])
RECURSIVE DominantCluster(_)
DominantCluster(clusters) ==
    IF clusters = <<>> THEN <<>>
    ELSE LET largest == DominantCluster(SubSeq(clusters, 1, Len(clusters) - 1))
             current == clusters[Len(clusters)]
         IN  IF Len(current) > Len(largest) THEN current ELSE largest

\* A grid walk whose expected downbeat advances by the mean measure duration
\* from where it was, not from the accepted beat.
RECURSIVE MeasureWalkOnGrid(_, _, _, _)
MeasureWalkOnGrid(strongBeats, sum, len, i) ==
    IF i = 0 THEN [measures |-> <<>>, expected |-> strongBeats[1].time * len]
    ELSE LET prev == MeasureWalkOnGrid(strongBeats, sum, len, i - 1)
             beat == strongBeats[i]
             timeDiff == Abs(beat.time * len - prev.expected)
         IN  IF 10 * timeDiff < 3 * sum
             THEN [measures |-> Append(prev.measures,
                       [startTime |-> beat.time,
                        confidence |-> RatMax(Rat(1, 10), Rat(sum - timeDiff, sum))]),
                   expected |-> prev.expected + sum]
             ELSE prev

\* A grid walk whose confidence falls twice as fast with the distance.
RECURSIVE MeasureWalkSteepConfidence(_, _, _, _)
MeasureWalkSteepConfidence(strongBeats, sum, len, i) ==
    IF i = 0 THEN [measures |-> <<>>, expected |-> strongBeats[1].time * len]
    ELSE LET prev == MeasureWalkSteepConfidence(strongBeats, sum, len, i - 1)
             beat == strongBeats[i]
             timeDiff == Abs(beat.time * len - prev.expected)
         IN  IF 10 * timeDiff < 3 * sum
             THEN [measures |-> Append(prev.measures,
                       [startTime |-> beat.time,
                        confidence |-> RatMax(Rat(1, 10), Rat(sum - 2 * timeDiff, sum))]),
                   expected |-> beat.time * len + sum]
             ELSE prev

\* A grid walk with a tolerance of half a measure.
RECURSIVE MeasureWalkHalfTolerance(_, _, _, _)
MeasureWalkHalfTolerance(strongBeats, sum, len, i) ==
    IF i = 0 THEN [measures |-> <<>>, expected |-> strongBeats[1].time * len]
    ELSE LET prev == MeasureWalkHalfTolerance(strongBeats, sum, len, i - 1)
             beat == strongBeats[i]
             timeDiff == Abs(beat.time * len - prev.expected)
         IN  IF 10 * timeDiff < 5 * sum
             THEN [measures |-> Append(prev.measures,
                       [startTime |-> beat.time,
                        confidence |-> RatMax(Rat(1, 10), Rat(sum - timeDiff, sum))]),
                   expected |-> beat.time * len + sum]
             ELSE prev

\* The grid walk over the first i strong beats.  averageMeasureDuration is
\* the fraction sum/len; expectedNextMeasure is kept as the numerator
\* expected of the fraction expected/len.
RECURSIVE MeasureWalk(_, _, _, _)
MeasureWalk(strongBeats, sum, len, i) ==
    IF i = 0 THEN [measures |-> <<>>, expected |-> strongBeats[1].time * len]
    ELSE LET prev == MeasureWalk(strongBeats, sum, len, i - 1)
             beat == strongBeats[i]
             timeDiff == Abs(beat.time * len - prev.expected)
         IN  IF 10 * timeDiff < 3 * sum
             THEN [measures |-> Append(prev.measures,
                       [startTime |-> beat.time,
                        confidence |-> RatMax(Rat(1, 10), Rat(sum - timeDiff, sum))]),
                   expected |-> beat.time * len + sum]
             ELSE prev

\* A mean measure duration that asks for 7 beats only.
AverageMeasureDurationFromSevenBeats(beatMarkers) ==
    LET strongBeats == SelectSeq(beatMarkers, IsStrong)
        measureIntervals == MeasureIntervals(strongBeats)
        sorted == SortAscending(measureIntervals)
        dominantCluster == DominantCluster(Clusters(sorted))
    IN  IF Len(beatMarkers) < 7 THEN <<>>
        ELSE IF Len(strongBeats) < 3 THEN <<>>
        ELSE IF Len(measureIntervals) < 2 THEN <<>>
        ELSE IF Len(dominantCluster) < 2 THEN <<>>
        ELSE <<SumSeq(dominantCluster), Len(dominantCluster)>>

\* The mean of the dominant cluster as the pair <<sum, len>>, or <<>> when
\* detectMeasures returns early.
AverageMeasureDuration(beatMarkers) ==
    LET strongBeats == SelectSeq(beatMarkers, IsStrong)
        measureIntervals == MeasureIntervals(strongBeats)
        sorted == SortAscending(measureIntervals)
        dominantCluster == DominantCluster(Clusters(sorted))
    IN  IF Len(beatMarkers) < 8 THEN <<>>
        ELSE IF Len(strongBeats) < 3 THEN <<>>
        ELSE IF Len(measureIntervals) < 2 THEN <<>>
        ELSE IF Len(dominantCluster) < 2 THEN <<>>
        ELSE <<SumSeq(dominantCluster), Len(dominantCluster)>>

\* detectMeasures.  The bpm field and the all-beat interval list are
\* computed by the source and never read; they are left out.
detectMeasures(beatMarkers) ==
    LET avg == AverageMeasureDuration(beatMarkers)
        strongBeats == SelectSeq(beatMarkers, IsStrong)
    IN  IF avg = <<>> THEN <<>>
        ELSE SelectSeq(
                 MeasureWalk(strongBeats, avg[1], avg[2], Len(strongBeats)).measures,
                 LAMBDA m : RatLess(Rat(4, 10), m.confidence))

\* ------------------------------------------------------------ detectDrops

\* Minimum 1.2 s of "silence" before a drop.
minSilenceDuration == Cs(120)

\* A drop detector that measures the silence from the beat before, of any
\* class.
detectDropsAfterAnyBeat(beatMarkers) ==
    LET IsDrop(i) == /\ IsStrong(beatMarkers[i])
                     /\ beatMarkers[i].time - beatMarkers[i - 1].time >= minSilenceDuration
                     /\ beatMarkers[i].intensity > 20
        idx == SelectSeq([i \in 1 .. Len(beatMarkers) - 1 |-> i + 1], IsDrop)
    IN  [k \in 1 .. Len(idx) |->
            [time |-> beatMarkers[idx[k]].time,
             intensity |-> beatMarkers[idx[k]].intensity,
             type |-> beatMarkers[idx[k]].type,
             isDrop |-> TRUE,
             silenceDuration |-> beatMarkers[idx[k]].time - beatMarkers[idx[k] - 1].time]]

detectDrops(beatMarkers) ==
    LET strongBeats == SelectSeq(beatMarkers, IsStrong)
        IsDrop(i) == /\ strongBeats[i].time - strongBeats[i - 1].time >= minSilenceDuration
                     /\ strongBeats[i].intensity > 20
        idx == SelectSeq([i \in 1 .. Len(strongBeats) - 1 |-> i + 1], IsDrop)
    IN  [k \in 1 .. Len(idx) |->
            [time |-> strongBeats[idx[k]].time,
             intensity |-> strongBeats[idx[k]].intensity,
             type |-> strongBeats[idx[k]].type,
             isDrop |-> TRUE,
             silenceDuration |-> strongBeats[idx[k]].time - strongBeats[idx[k] - 1].time]]

\* --------------------------------------------------- generateEquidistantCuts

\* An equidistant fallback that divides the region into count intervals.
generateEquidistantCutsOffByOne(startTime, endTime, count, firstId) ==
    LET duration == endTime - startTime
        interval == duration \div count
    IN  [i \in 1 .. count |->
            CutMarker(firstId + i - 1,
                      startTime + interval * i,
                      COLORS[((i - 1) % Len(COLORS)) + 1],
                      Min(Sec, (interval * 4) \div 5))]

\* An equidistant fallback whose cuts last half an interval.
generateEquidistantCutsHalfInterval(startTime, endTime, count, firstId) ==
    LET duration == endTime - startTime
        interval == duration \div (count + 1)
    IN  [i \in 1 .. count |->
            CutMarker(firstId + i - 1,
                      startTime + interval * i,
                      COLORS[((i - 1) % Len(COLORS)) + 1],
                      Min(Sec, interval \div 2))]

\* interval = duration / (count + 1); exact in ticks for every plan count of
\* PlanCounts, as is interval * 0.8.
generateEquidistantCuts(startTime, endTime, count, firstId) ==
    LET duration == endTime - startTime
        interval == duration \div (count + 1)
    IN  [i \in 1 .. count |->
            CutMarker(firstId + i - 1,
                      startTime + interval * i,
                      COLORS[((i - 1) % Len(COLORS)) + 1],
                      Min(Sec, (interval * 4) \div 5))]

\* ------------------------------------------------------ optimizeCutDurations

BeforeInTime(a, b) == a.time < b.time

\* A sort that leaves the list as it is.
Unsorted(cuts) == cuts

\* A sort that hands the palette out again in the order of time.
SortByTimeRecoloured(cuts) ==
    LET sorted == StableSort(cuts, [i \in 1 .. Len(cuts) |->
                      [j \in 1 .. Len(cuts) |-> BeforeInTime(cuts[i], cuts[j])]])
    IN  [i \in 1 .. Len(sorted) |->
            [sorted[i] EXCEPT !.color = COLORS[((i - 1) % Len(COLORS)) + 1]]]

\* [...cuts].sort((a, b) => a.time - b.time)
SortByTime(cuts) ==
    StableSort(cuts, [i \in 1 .. Len(cuts) |->
                         [j \in 1 .. Len(cuts) |-> BeforeInTime(cuts[i], cuts[j])]])

\* An optimizer that takes its 0.1 s margin from the duration it keeps.
optimizeCutDurationsShrinking(cuts, endTime) ==
    LET sortedCuts == SortByTime(cuts)
    IN  [index \in 1 .. Len(sortedCuts) |->
            LET cut == sortedCuts[index]
                maxDuration == IF index < Len(sortedCuts)
                               THEN sortedCuts[index + 1].time - cut.time
                               ELSE endTime - cut.time
            IN  [cut EXCEPT !.duration =
                     Max(Cs(30), Min(cut.duration, maxDuration) - Cs(10))]]

\* An optimizer that recolours the cuts by their position after the sort.
optimizeCutDurationsRecolouring(cuts, endTime) ==
    LET sortedCuts == SortByTime(cuts)
    IN  [index \in 1 .. Len(sortedCuts) |->
            LET cut == sortedCuts[index]
                maxDuration == IF index < Len(sortedCuts)
                               THEN sortedCuts[index + 1].time - cut.time
                               ELSE endTime - cut.time
            IN  [cut EXCEPT !.duration =
                     Min(cut.duration, Max(Cs(30), maxDuration - Cs(10))),
                            !.color = COLORS[((index - 1) % Len(COLORS)) + 1]]]

optimizeCutDurations(cuts, endTime) ==
    LET sortedCuts == SortByTime(cuts)
    IN  [index \in 1 .. Len(sortedCuts) |->
            LET cut == sortedCuts[index]
                maxDuration == IF index < Len(sortedCuts)
                               THEN sortedCuts[index + 1].time - cut.time
                               ELSE endTime - cut.time
            IN  [cut EXCEPT !.duration =
                     Min(cut.duration, Max(Cs(30), maxDuration - Cs(10)))]]

\* ------------------------------------------------------ candidate building

Candidate(beat, time, priority, reason) ==
    [time |-> time, intensity |-> beat.intensity, type |-> beat.type,
     priority |-> priority, reason |-> reason]

\* A test that finds a candidate only within 10 ms of the beat.
NearCandidateTenMs(candidates, beatTime) ==
    \E k \in 1 .. Len(candidates) : Abs(candidates[k].time - beatTime) < Cs(1)

\* candidates.some(c => Math.abs(c.time - beat.time) < 0.1)
NearCandidate(candidates, beatTime) ==
    \E k \in 1 .. Len(candidates) : Abs(candidates[k].time - beatTime) < Cs(10)

\* 1. Drops: always added, 50 ms before the beat, priority 100.
DropCandidates(startTime, endTime, drops) ==
    LET inside == SelectSeq(drops, LAMBDA drop : drop.time > startTime /\ drop.time < endTime)
    IN  [i \in 1 .. Len(inside) |->
            Candidate(inside[i], LeadTime(startTime, inside[i].time, Cs(5)),
                      Rat(100, 1), "drop")]

\* 2. Measure starts (the first i measures handled): 30 ms before the first
\* beat within 0.2 s of the measure start, priority 80 + confidence * 20.
RECURSIVE AddMeasureStarts(_, _, _, _, _)
AddMeasureStarts(startTime, availableBeats, measures, candidates, i) ==
    IF i = 0 THEN candidates
    ELSE LET prev == AddMeasureStarts(startTime, availableBeats, measures, candidates, i - 1)
             measure == measures[i]
             nearestBeat ==
                 First(SelectSeq(availableBeats,
                           LAMBDA beat : Abs(beat.time - measure.startTime) < Cs(20)))
         IN  IF nearestBeat # <<>> /\ ~NearCandidate(prev, nearestBeat[1].time)
             THEN Append(prev,
                      Candidate(nearestBeat[1],
                                LeadTime(startTime, nearestBeat[1].time, Cs(3)),
                                Rat(80 * measure.confidence.d + 20 * measure.confidence.n,
                                    measure.confidence.d),
                                "measure_start"))
             ELSE prev

\* avgMeasureDuration as the fraction <<numerator, denominator>>.
AvgMeasureDuration(measures, activeDuration) ==
    IF Len(measures) > 1
    THEN <<measures[Len(measures)].startTime - measures[1].startTime, Len(measures) - 1>>
    ELSE <<activeDuration, Max(1, Len(measures))>>

\* 3. Measure midpoints (the first i measures handled): the first strong
\* beat with |beat.time - (measure.startTime + avg/2)| < avg * 0.3, which for
\* avg = a/b is 5 * |2b(beat.time - measure.startTime) - a| < 3a.
RECURSIVE AddMeasureMids(_, _, _, _, _, _)
AddMeasureMids(startTime, availableBeats, measures, avg, candidates, i) ==
    IF i = 0 THEN candidates
    ELSE LET prev == AddMeasureMids(startTime, availableBeats, measures, avg, candidates, i - 1)
             measure == measures[i]
             nearestBeat ==
                 First(SelectSeq(availableBeats,
                           LAMBDA beat :
                               /\ 5 * Abs(2 * avg[2] * (beat.time - measure.startTime)
                                          - avg[1]) < 3 * avg[1]
                               /\ IsStrong(beat)))
         IN  IF nearestBeat # <<>> /\ ~NearCandidate(prev, nearestBeat[1].time)
             THEN Append(prev,
                      Candidate(nearestBeat[1],
                                LeadTime(startTime, nearestBeat[1].time, Cs(3)),
                                Rat(6000 + nearestBeat[1].intensity * 20, 100),
                                "measure_mid"))
             ELSE prev

\* Other strong beats with the 30 ms lead of the measure beats.
RECURSIVE AddStrongBeatsThirtyMs(_, _, _, _)
AddStrongBeatsThirtyMs(startTime, strongBeats, candidates, i) ==
    IF i = 0 THEN candidates
    ELSE LET prev == AddStrongBeatsThirtyMs(startTime, strongBeats, candidates, i - 1)
             beat == strongBeats[i]
         IN  IF ~NearCandidate(prev, beat.time)
             THEN Append(prev,
                      Candidate(beat, LeadTime(startTime, beat.time, Cs(3)),
                                Rat(4000 + beat.intensity * 20, 100), "strong_beat"))
             ELSE prev

\* 4. Other strong beats (the first i strong beats handled): 20 ms before
\* the beat, priority 40 + intensity * 20.
RECURSIVE AddStrongBeats(_, _, _, _)
AddStrongBeats(startTime, strongBeats, candidates, i) ==
    IF i = 0 THEN candidates
    ELSE LET prev == AddStrongBeats(startTime, strongBeats, candidates, i - 1)
             beat == strongBeats[i]
         IN  IF ~NearCandidate(prev, beat.time)
             THEN Append(prev,
                      Candidate(beat, LeadTime(startTime, beat.time, Cs(2)),
                                Rat(4000 + beat.intensity * 20, 100), "strong_beat"))
             ELSE prev

\* candidates.sort((a, b) => b.priority - a.priority)
HigherPriority(a, b) == RatLess(b.priority, a.priority)

BuildCandidates(startTime, endTime, availableBeats, measures, drops) ==
    LET c1 == DropCandidates(startTime, endTime, drops)
        c2 == AddMeasureStarts(startTime, availableBeats, measures, c1, Len(measures))
        c3 == IF Len(measures) > 0
              THEN AddMeasureMids(startTime, availableBeats, measures,
                                  AvgMeasureDuration(measures, endTime - startTime),
                                  c2, Len(measures))
              ELSE c2
        strongBeats == SelectSeq(availableBeats, IsStrong)
        c4 == AddStrongBeats(startTime, strongBeats, c3, Len(strongBeats))
    IN  StableSort(c4, [i \in 1 .. Len(c4) |->
                           [j \in 1 .. Len(c4) |-> HigherPriority(c4[i], c4[j])]])

\* ------------------------------------------------------------- selection

\* selectedCuts.some(cut => Math.abs(cut.time - time) < minCutInterval)
TooClose(selectedCuts, time, minCutInterval) ==
    \E k \in 1 .. Len(selectedCuts) : Abs(selectedCuts[k].time - time) < minCutInterval

\* A push that takes the cut's colour from the number of ids handed out.
PushCutColouredById(selectedCuts, idBase, time) ==
    Append(selectedCuts,
           CutMarker(idBase + Len(selectedCuts) + 1, time,
                     COLORS[((idBase + Len(selectedCuts)) % Len(COLORS)) + 1], Sec))

\* selectedCuts.push of a new cut; the cut's colour is taken from the length
\* of the list before the push, its id is fresh.
PushCut(selectedCuts, idBase, time) ==
    Append(selectedCuts,
           CutMarker(idBase + Len(selectedCuts) + 1, time,
                     COLORS[(Len(selectedCuts) % Len(COLORS)) + 1], Sec))

\* A forEach that pushes every forced cut, however many are needed.
RECURSIVE ForceDropsUncapped(_, _, _, _)
ForceDropsUncapped(forcedCuts, cutsNeeded, idBase, i) ==
    IF i = 0 THEN <<>>
    ELSE PushCut(ForceDropsUncapped(forcedCuts, cutsNeeded, idBase, i - 1),
                 idBase, forcedCuts[i].time)

\* forcedCuts.forEach (the first i forced cuts handled).
RECURSIVE ForceDrops(_, _, _, _)
ForceDrops(forcedCuts, cutsNeeded, idBase, i) ==
    IF i = 0 THEN <<>>
    ELSE LET prev == ForceDrops(forcedCuts, cutsNeeded, idBase, i - 1)
         IN  IF Len(prev) < cutsNeeded
             THEN PushCut(prev, idBase, forcedCuts[i].time)
             ELSE prev

\* A selection loop that does not look at the spacing.
RECURSIVE SelectCandidatesUnspaced(_, _, _, _, _, _)
SelectCandidatesUnspaced(selectedCuts, candidates, cutsNeeded, minCutInterval, idBase, i) ==
    IF i = 0 THEN selectedCuts
    ELSE LET prev == SelectCandidatesUnspaced(selectedCuts, candidates, cutsNeeded,
                                              minCutInterval, idBase, i - 1)
             candidate == candidates[i]
         IN  IF Len(prev) >= cutsNeeded THEN prev
             ELSE IF candidate.reason = "drop" THEN prev
             ELSE PushCut(prev, idBase, candidate.time)

\* for (const candidate of candidates) (the first i candidates handled).
RECURSIVE SelectCandidates(_, _, _, _, _, _)
SelectCandidates(selectedCuts, candidates, cutsNeeded, minCutInterval, idBase, i) ==
    IF i = 0 THEN selectedCuts
    ELSE LET prev == SelectCandidates(selectedCuts, candidates, cutsNeeded,
                                      minCutInterval, idBase, i - 1)
             candidate == candidates[i]
         IN  IF Len(prev) >= cutsNeeded THEN prev
             ELSE IF candidate.reason = "drop" THEN prev
             ELSE IF ~TooClose(prev, candidate.time, minCutInterval)
                  THEN PushCut(prev, idBase, candidate.time)
                  ELSE prev

\* The beats the backfill may still use.
FreeBeats(availableBeats, selectedCuts, minCutInterval) ==
    SelectSeq(availableBeats,
              LAMBDA beat : ~TooClose(selectedCuts, beat.time, minCutInterval))

\* |beat.time - idealTime| * (cutsNeeded + 1), for
\* idealTime = startTime + (missingIndex + 1) * activeDuration / (cutsNeeded + 1).
IdealDistance(beat, startTime, activeDuration, cutsNeeded, missingIndex) ==
    Abs(beat.time * (cutsNeeded + 1)
        - (startTime * (cutsNeeded + 1) + (missingIndex + 1) * activeDuration))

\* .reduce((nearest, current) => currentDistance < nearestDistance ? current
\* : nearest) without an initial value, over the first i elements (i >= 1).
RECURSIVE NearestBeat(_, _, _, _, _, _)
NearestBeat(beats, startTime, activeDuration, cutsNeeded, missingIndex, i) ==
    IF i = 1 THEN beats[1]
    ELSE LET nearest == NearestBeat(beats, startTime, activeDuration, cutsNeeded,
                                    missingIndex, i - 1)
             current == beats[i]
         IN  IF IdealDistance(current, startTime, activeDuration, cutsNeeded, missingIndex)
                  < IdealDistance(nearest, startTime, activeDuration, cutsNeeded, missingIndex)
             THEN current ELSE nearest

\* ------------------------------------------------------------ the guards

\* A plan-count guard that lets planCount = 1 through.
MalformedPlanCountBelowOne(planCount) == planCount < 1

\* if (planCount < 2) return [];
MalformedPlanCount(planCount) == planCount < 2

\* A duration guard that forgets the number of cuts.
InsufficientForOneCut(activeDuration, cutsNeeded, minCutInterval) ==
    activeDuration < minCutInterval

\* if (activeDuration < cutsNeeded * minCutInterval) return [];
InsufficientDuration(activeDuration, cutsNeeded, minCutInterval) ==
    activeDuration < cutsNeeded * minCutInterval

\* A filter that keeps the beats on the two bounds of the region.
InRegionClosed(beat, startTime, endTime) == beat.time >= startTime /\ beat.time <= endTime

\* beat.time > startTime && beat.time < endTime
InRegion(beat, startTime, endTime) == beat.time > startTime /\ beat.time < endTime

\* ------------------------------------------------------------- the inputs

Beat(time, intensity, type) == [time |-> time, intensity |-> intensity, type |-> type]

\* Beat times of the short lists: just inside the region start, 0.79 s
\* apart, more than 1.2 s apart, and on the bounds of the regions below.
TimeGrid == {Cs(2), Cs(100), Cs(179), Cs(300), Cs(400)}

\* Intensity (percent) and class of the beats of the short lists; an
\* intensity is a number >= 0 and may exceed 1.
BeatKinds == {<<50, "strong">>, <<20, "strong">>, <<150, "strong">>, <<10, "weak">>}

\* The beat lists of length n over the grid, strictly ascending in time.
GridBeatLists(n) ==
    LET asc == {t \in [1 .. n -> TimeGrid] : \A i \in 1 .. n - 1 : t[i] < t[i + 1]}
    IN  {[i \in 1 .. n |-> Beat(t[i], kind[i][1], kind[i][2])] :
            t \in asc, kind \in [1 .. n -> BeatKinds]}

\* Ten-beat lists with a measure grid: strong beats near 0.5, 1.5, 2.5 and
\* 3.5 s, the last three displaced, weak beats before and after the first,
\* and a fill-in beat at each full second that is medium or strong.
FillIn(i, strong) == IF strong THEN Beat(Cs(100 * i), 80, "strong")
                               ELSE Beat(Cs(100 * i), 20, "medium")

PatternBeatLists ==
    {<<Beat(Cs(20), 10, "weak"), Beat(Cs(50), 50, "strong"), Beat(Cs(75), 10, "weak"),
       FillIn(1, fill[1]), Beat(Cs(s2), 50, "strong"),
       FillIn(2, fill[2]), Beat(Cs(s3), 50, "strong"),
       FillIn(3, fill[3]), Beat(Cs(s4), 50, "strong"),
       FillIn(4, fill[4])>> :
        s2 \in {140, 150, 190}, s3 \in {250, 270, 290}, s4 \in {350, 380},
        fill \in [1 .. 4 -> BOOLEAN]}

\* A drop at t = 10 s, 2 s after the strong beat before it, with weak beats
\* elsewhere.
ScenarioBeatLists ==
    {<<Beat(Cs(300), 10, "weak"), Beat(Cs(800), 50, "strong"),
       Beat(Cs(1000), 50, "strong"), Beat(Cs(1500), 10, "weak")>>}

BeatLists ==
    UNION {GridBeatLists(n) : n \in 0 .. MaxBeats}
        \cup PatternBeatLists \cup ScenarioBeatLists

\* The active regions <<startTime, endTime>>.
Regions == {<<0, Cs(100)>>, <<0, Cs(400)>>, <<Cs(98), Cs(450)>>, <<0, Cs(2000)>>}

\* The default minCutInterval (0.8 s, the value App passes), a smaller and a
\* larger one, and 0.03 s, which is less than the 0.05 s a clamped cut can
\* lie from its beat.
MinCutIntervals == {Cs(3), Cs(40), Cs(80), Cs(150)}

\* The inputs of optimizeCutDurations called on its own.
MaxCuts == 3

CutTimes == {0, Cs(20), Cs(55), Cs(100), Cs(250)}

CutDurations == {Cs(10), Cs(50), Sec}

CutLists ==
    UNION {{[i \in 1 .. n |-> CutMarker(i, t[i], COLORS[i], d[i])] :
               t \in {g \in [1 .. n -> CutTimes] :
                         \A i \in 1 .. n - 1 : g[i] <= g[i + 1]},
               d \in [1 .. n -> CutDurations]} :
           n \in 0 .. MaxCuts}

\* A cut list in any order of time, as a caller may pass it: n cuts with
\* times t and durations d.
AnyCutList(n, t, d) == [i \in 1 .. n |-> CutMarker(i, t[i], COLORS[i], d[i])]

\* --------------------------------------------------------------- the state

VARIABLES
    startTime,       \* options.startTime
    endTime,         \* options.endTime
    planCount,       \* options.planCount
    beatMarkers,     \* options.beatMarkers
    minCutInterval,  \* options.minCutInterval
    pc,              \* the position in generateRandomCuts
    availableBeats,  \* the beats inside the region
    measures,        \* detectMeasures(availableBeats)
    drops,           \* detectDrops(availableBeats)
    candidates,      \* the candidates, sorted by priority
    selectedCuts,    \* the cuts selected so far
    cuts,            \* the argument of optimizeCutDurations called on its own
    result,          \* the returned list
    uuidCount,       \* the number of ids crypto.randomUUID() has handed out
    calls,           \* the earlier calls of generateRandomCuts, in order:
                     \* their arguments and how they ended; in the App, the
                     \* handler called last and its arguments
    cutMarkers,      \* the App's state cutMarkers
    audioFile        \* the App's state audioFile: TRUE when a file is loaded

vars == <<startTime, endTime, planCount, beatMarkers, minCutInterval, pc,
          availableBeats, measures, drops, candidates, selectedCuts, cuts,
          result, uuidCount, calls, cutMarkers, audioFile>>

\* What a call of the engine does not write: its arguments and its caller's
\* state.
inputs == <<startTime, endTime, planCount, beatMarkers, minCutInterval, cuts,
            cutMarkers, audioFile>>

cutsNeeded == planCount - 1

activeDuration == endTime - startTime

Locals0 ==
    /\ availableBeats = <<>>
    /\ measures = <<>>
    /\ drops = <<>>
    /\ candidates = <<>>
    /\ selectedCuts = <<>>
    /\ result = <<>>
    /\ uuidCount = 0

\* useState<AudioFile | null>(null), useState<CutMarker[]>([]): the state of
\* an App that has loaded nothing, which the engine called on its own leaves
\* alone.
NoApp ==
    /\ cutMarkers = <<>>
    /\ audioFile = FALSE

\* A call generateRandomCuts({startTime, endTime, planCount, beatMarkers,
\* minCutInterval}).
Init ==
    /\ \E region \in Regions : startTime = region[1] /\ endTime = region[2]
    /\ planCount \in PlanCounts
    /\ beatMarkers \in BeatLists
    /\ minCutInterval \in MinCutIntervals
    /\ cuts = <<>>
    /\ pc = "start"
    /\ Locals0
    /\ NoApp
    /\ calls = <<>>

\* if (planCount < 2) return [];
RejectPlanCount ==
    /\ pc = "start"
    /\ MalformedPlanCount(planCount)
    /\ result' = <<>>
    /\ pc' = "done"
    /\ UNCHANGED <<inputs, calls, availableBeats, measures, drops, candidates,
                   selectedCuts, uuidCount>>

\* if (activeDuration < cutsNeeded * minCutInterval) return [];
RejectDuration ==
    /\ pc = "start"
    /\ ~MalformedPlanCount(planCount)
    /\ InsufficientDuration(activeDuration, cutsNeeded, minCutInterval)
    /\ result' = <<>>
    /\ pc' = "done"
    /\ UNCHANGED <<inputs, calls, availableBeats, measures, drops, candidates,
                   selectedCuts, uuidCount>>

\* const availableBeats = beatMarkers.filter(...)
FilterBeats ==
    /\ pc = "start"
    /\ ~MalformedPlanCount(planCount)
    /\ ~InsufficientDuration(activeDuration, cutsNeeded, minCutInterval)
    /\ availableBeats' = SelectSeq(beatMarkers,
                                   LAMBDA beat : InRegion(beat, startTime, endTime))
    /\ pc' = "filtered"
    /\ UNCHANGED <<inputs, calls, measures, drops, candidates, selectedCuts, result,
                   uuidCount>>

\* if (availableBeats.length === 0) return generateEquidistantCuts(...)
Equidistant ==
    /\ pc = "filtered"
    /\ Len(availableBeats) = 0
    /\ result' = generateEquidistantCuts(startTime, endTime, cutsNeeded, uuidCount + 1)
    /\ uuidCount' = uuidCount + cutsNeeded
    /\ pc' = "done"
    /\ UNCHANGED <<inputs, calls, availableBeats, measures, drops, candidates, selectedCuts>>

\* measures = detectMeasures(availableBeats); drops = detectDrops(availableBeats)
Detect ==
    /\ pc = "filtered"
    /\ Len(availableBeats) # 0
    /\ measures' = detectMeasures(availableBeats)
    /\ drops' = detectDrops(availableBeats)
    /\ pc' = "detected"
    /\ UNCHANGED <<inputs, calls, availableBeats, candidates, selectedCuts, result, uuidCount>>

\* The four candidate rules and the sort by priority.
Candidates ==
    /\ pc = "detected"
    /\ candidates' = BuildCandidates(startTime, endTime, availableBeats, measures, drops)
    /\ pc' = "candidates"
    /\ UNCHANGED <<inputs, calls, availableBeats, measures, drops, selectedCuts, result,
                   uuidCount>>

\* forcedCuts.forEach(...): the drops first.
Forced ==
    /\ pc = "candidates"
    /\ LET forcedCuts == SelectSeq(candidates, LAMBDA c : c.reason = "drop")
       IN  selectedCuts' = ForceDrops(forcedCuts, cutsNeeded, uuidCount, Len(forcedCuts))
    /\ uuidCount' = uuidCount + Len(selectedCuts')
    /\ pc' = "forced"
    /\ UNCHANGED <<inputs, calls, availableBeats, measures, drops, candidates, result>>

\* for (const candidate of candidates) ...: the other candidates.
Select ==
    /\ pc = "forced"
    /\ selectedCuts' = SelectCandidates(selectedCuts, candidates, cutsNeeded,
                                        minCutInterval, uuidCount - Len(selectedCuts),
                                        Len(candidates))
    /\ uuidCount' = uuidCount + Len(selectedCuts') - Len(selectedCuts)
    /\ pc' = "backfill"
    /\ UNCHANGED <<inputs, calls, availableBeats, measures, drops, candidates, result>>

\* One iteration of while (selectedCuts.length < cutsNeeded) in which the
\* filtered beat list is not empty: reduce returns a beat, which is pushed
\* 20 ms early.
Backfill ==
    /\ pc = "backfill"
    /\ Len(selectedCuts) < cutsNeeded
    /\ LET free == FreeBeats(availableBeats, selectedCuts, minCutInterval)
       IN  /\ free # <<>>
           /\ LET nearestBeat == NearestBeat(free, startTime, activeDuration, cutsNeeded,
                                             Len(selectedCuts), Len(free))
              IN  selectedCuts' =
                      PushCut(selectedCuts, uuidCount - Len(selectedCuts),
                              LeadTime(startTime, nearestBeat.time, Cs(2)))
    /\ uuidCount' = uuidCount + 1
    /\ UNCHANGED <<inputs, calls, pc, availableBeats, measures, drops, candidates, result>>

\* One iteration of the while loop in which the filtered beat list is empty:
\* reduce of an empty array with no initial value throws a TypeError, which
\* generateRandomCuts does not catch.  (The else branch that would push a cut
\* at idealTime is therefore never taken.)
BackfillThrows ==
    /\ pc = "backfill"
    /\ Len(selectedCuts) < cutsNeeded
    /\ FreeBeats(availableBeats, selectedCuts, minCutInterval) = <<>>
    /\ pc' = "threw"
    /\ UNCHANGED <<inputs, calls, availableBeats, measures, drops, candidates, selectedCuts,
                   result, uuidCount>>

\* finalCuts = optimizeCutDurations(selectedCuts.sort(...), endTime); return
Finish ==
    /\ pc = "backfill"
    /\ Len(selectedCuts) >= cutsNeeded
    /\ selectedCuts' = SortByTime(selectedCuts)
    /\ result' = optimizeCutDurations(selectedCuts', endTime)
    /\ pc' = "done"
    /\ UNCHANGED <<inputs, calls, availableBeats, measures, drops, candidates, uuidCount>>

Next ==
    \/ RejectPlanCount
    \/ RejectDuration
    \/ FilterBeats
    \/ Equidistant
    \/ Detect
    \/ Candidates
    \/ Forced
    \/ Select
    \/ Backfill
    \/ BackfillThrows
    \/ Finish

Spec == Init /\ [][Next]_vars

\* --------------------------------------- generateRandomCuts called repeatedly

\* The most calls made one after the other.
MaxCalls == 3

\* Beat lists of the repeated calls: a strong beat and a weak one 0.79 s
\* later, two strong beats 2 s apart, a lone strong beat, and ten beats with
\* a strong beat every second.
RepeatBeatLists ==
    {<<Beat(Cs(100), 50, "strong"), Beat(Cs(179), 10, "weak")>>,
     <<Beat(Cs(100), 50, "strong"), Beat(Cs(300), 50, "strong")>>,
     <<Beat(Cs(100), 50, "strong")>>,
     <<Beat(Cs(20), 10, "weak"), Beat(Cs(50), 50, "strong"), Beat(Cs(75), 10, "weak"),
       FillIn(1, FALSE), Beat(Cs(150), 50, "strong"),
       FillIn(2, FALSE), Beat(Cs(250), 50, "strong"),
       FillIn(3, FALSE), Beat(Cs(350), 50, "strong"),
       FillIn(4, FALSE)>>}

\* Beat lists for the region 1..4 with the same beats inside it, strong
\* beats at 1.79 and 3.0 s: these alone, and these with beats before the
\* region, on its two bounds and after it.
OutsiderBeatLists ==
    {<<Beat(Cs(179), 50, "strong"), Beat(Cs(300), 50, "strong")>>,
     <<Beat(Cs(2), 50, "strong"), Beat(Cs(100), 50, "strong"),
       Beat(Cs(179), 50, "strong"), Beat(Cs(300), 50, "strong"),
       Beat(Cs(400), 50, "strong"), Beat(Cs(450), 10, "weak")>>}

\* The ten beats of RepeatBeatLists without the last, which is at 4 s, and
\* with strong beats at 0 and at 5 s: for the region 0..4 the beats inside
\* are the same nine.
NineBeatsAndOutsiders ==
    <<Beat(0, 50, "strong"),
      Beat(Cs(20), 10, "weak"), Beat(Cs(50), 50, "strong"), Beat(Cs(75), 10, "weak"),
      FillIn(1, FALSE), Beat(Cs(150), 50, "strong"),
      FillIn(2, FALSE), Beat(Cs(250), 50, "strong"),
      FillIn(3, FALSE), Beat(Cs(350), 50, "strong"),
      Beat(Cs(500), 50, "strong")>>

\* The arguments <<startTime, endTime, planCount, beatMarkers,
\* minCutInterval>> of the repeated calls.
RepeatArguments ==
    {<<0, Cs(400), 3, beats, Cs(80)>> : beats \in RepeatBeatLists}
    \cup {<<0, Cs(400), 1, <<Beat(Cs(100), 50, "strong")>>, Cs(80)>>,
          <<0, Cs(100), 3, <<Beat(Cs(50), 50, "strong")>>, Cs(80)>>,
          <<0, Cs(100), 2, <<Beat(Cs(100), 50, "strong")>>, Cs(80)>>}
    \cup {<<Cs(100), Cs(400), 3, beats, Cs(80)>> : beats \in OutsiderBeatLists}
    \cup {<<0, Cs(400), 3, NineBeatsAndOutsiders, Cs(80)>>}

arguments == <<startTime, endTime, planCount, beatMarkers, minCutInterval>>

InitRepeated ==
    /\ \E a \in RepeatArguments :
           /\ startTime = a[1] /\ endTime = a[2] /\ planCount = a[3]
           /\ beatMarkers = a[4] /\ minCutInterval = a[5]
    /\ cuts = <<>>
    /\ pc = "start"
    /\ Locals0
    /\ NoApp
    /\ calls = <<>>

\* The call has ended (returned or thrown) and generateRandomCuts is called
\* again: its locals are new, the ids handed out so far stay used.
CallAgain ==
    /\ pc \in {"done", "threw"}
    /\ Len(calls) + 1 < MaxCalls
    /\ calls' = Append(calls, [arguments |-> arguments,
                               returned |-> pc = "done",
                               result |-> result,
                               measures |-> measures,
                               drops |-> drops])
    /\ \E a \in RepeatArguments :
           /\ startTime' = a[1] /\ endTime' = a[2] /\ planCount' = a[3]
           /\ beatMarkers' = a[4] /\ minCutInterval' = a[5]
    /\ pc' = "start"
    /\ availableBeats' = <<>>
    /\ measures' = <<>>
    /\ drops' = <<>>
    /\ candidates' = <<>>
    /\ selectedCuts' = <<>>
    /\ result' = <<>>
    /\ UNCHANGED <<cuts, uuidCount, cutMarkers, audioFile>>

NextRepeated ==
    \/ Next
    \/ CallAgain

SpecRepeated == InitRepeated /\ [][NextRepeated]_vars

\* ------------------------------- detectMeasures and detectDrops on their own

\* Longest in-region beat list handed to the detectors.
MaxDetectBeats == 8

\* Gaps between successive beats: two of the shorter make 0.8 s (the lower
\* limit of a measure interval), two of the longer 1.2 s (the silence before
\* a drop), one of each 1.0 s.
BeatGaps == {Cs(40), Cs(60)}

\* Intensities (percent) of the strong beats, by position in the list: 0.2
\* is not above the drop threshold, 0.21 is.
StrongIntensities == <<50, 20, 21>>

\* The time of beat i (i >= 1): the first beat is at 0.4 s, each later
\* beat follows the one before by its gap.
RECURSIVE TimeOfBeat(_, _)
TimeOfBeat(gaps, i) == IF i = 1 THEN Cs(40) ELSE TimeOfBeat(gaps, i - 1) + gaps[i]

\* The beat list of length n with these gaps, strong where strong[i], else
\* weak or medium in turn.
DetectBeatList(n, gaps, strong) ==
    [i \in 1 .. n |->
        IF strong[i]
        THEN Beat(TimeOfBeat(gaps, i), StrongIntensities[((i - 1) % 3) + 1], "strong")
        ELSE IF i % 2 = 1 THEN Beat(TimeOfBeat(gaps, i), 10, "weak")
        ELSE Beat(TimeOfBeat(gaps, i), 20, "medium")]

\* Nine-beat lists with two groups of strong-beat intervals: strong beats
\* 0.4, +x, +x, +y, +y with a weak beat 0.2 s after each of the first four,
\* where the intervals a and b = a + more come shorter first (x = a, y = b)
\* or longer first.  more = 0.3 s splits the sorted intervals into two
\* clusters of two, more = 0.2 s leaves one cluster of four.
ClusterBeatList(a, more, shorterFirst) ==
    LET x == IF shorterFirst THEN a ELSE a + more
        y == IF shorterFirst THEN a + more ELSE a
        t == <<Cs(40), Cs(40) + x, Cs(40) + 2 * x, Cs(40) + 2 * x + y,
               Cs(40) + 2 * x + 2 * y>>
    IN  <<Beat(t[1], 50, "strong"), Beat(t[1] + Cs(20), 10, "weak"),
          Beat(t[2], 50, "strong"), Beat(t[2] + Cs(20), 10, "weak"),
          Beat(t[3], 50, "strong"), Beat(t[3] + Cs(20), 10, "weak"),
          Beat(t[4], 50, "strong"), Beat(t[4] + Cs(20), 10, "weak"),
          Beat(t[5], 50, "strong")>>

ClusterBeatLists ==
    {ClusterBeatList(a, more, shorterFirst) :
        a \in {Cs(100), Cs(120)}, more \in {Cs(20), Cs(30), Cs(40)},
        shorterFirst \in BOOLEAN}

\* A call of generateRandomCuts for the region 0..20, which holds every beat
\* of the list, followed up to the calls of the detectors.
InitDetect ==
    /\ startTime = 0
    /\ endTime = Cs(2000)
    /\ planCount = 2
    /\ minCutInterval = Cs(80)
    /\ \/ \E n \in 1 .. MaxDetectBeats :
              \E gaps \in [2 .. n -> BeatGaps], strong \in [1 .. n -> BOOLEAN] :
                  beatMarkers = DetectBeatList(n, gaps, strong)
       \/ beatMarkers \in ClusterBeatLists
    /\ cuts = <<>>
    /\ pc = "start"
    /\ Locals0
    /\ NoApp
    /\ calls = <<>>

NextDetect ==
    \/ FilterBeats
    \/ Detect

SpecDetect == InitDetect /\ [][NextDetect]_vars

\* ------------------------------------- optimizeCutDurations on its own

InitOptimize ==
    /\ cuts \in CutLists
    /\ endTime \in {Cs(250), Cs(400)}
    /\ startTime = 0
    /\ planCount = 0
    /\ beatMarkers = <<>>
    /\ minCutInterval = Cs(80)
    /\ pc = "optimize"
    /\ Locals0
    /\ NoApp
    /\ calls = <<>>

\* result = optimizeCutDurations(cuts, endTime)
Optimize ==
    /\ pc = "optimize"
    /\ result' = optimizeCutDurations(cuts, endTime)
    /\ pc' = "optimized"
    /\ UNCHANGED <<inputs, calls, availableBeats, measures, drops, candidates, selectedCuts,
                   uuidCount>>

NextOptimize == Optimize

SpecOptimize == InitOptimize /\ [][NextOptimize]_vars

\* ------------------------- the two exported functions, each called on its own

\* A call of generateRandomCuts or a call of optimizeCutDurations.
InitExports == Init \/ InitOptimize

NextExports ==
    \/ Next
    \/ Optimize

SpecExports == InitExports /\ [][NextExports]_vars

\* ------------------------------------------ optimizeCutDurations applied twice

InitOptimizeTwice ==
    /\ \E n \in 0 .. MaxCuts :
           \E t \in [1 .. n -> CutTimes], d \in [1 .. n -> CutDurations] :
               cuts = AnyCutList(n, t, d)
    /\ endTime \in {Cs(250), Cs(400)}
    /\ startTime = 0
    /\ planCount = 0
    /\ beatMarkers = <<>>
    /\ minCutInterval = Cs(80)
    /\ pc = "optimize"
    /\ Locals0
    /\ NoApp
    /\ calls = <<>>

\* result = optimizeCutDurations(result, endTime): the returned list is
\* passed back as the argument.
OptimizeAgain ==
    /\ pc = "optimized"
    /\ cuts' = result
    /\ result' = optimizeCutDurations(result, endTime)
    /\ pc' = "optimized twice"
    /\ UNCHANGED <<startTime, endTime, planCount, beatMarkers, minCutInterval,
                   calls, availableBeats, measures, drops, candidates, selectedCuts,
                   uuidCount, cutMarkers, audioFile>>

NextOptimizeTwice ==
    \/ Optimize
    \/ OptimizeAgain

SpecOptimizeTwice == InitOptimizeTwice /\ [][NextOptimizeTwice]_vars

\* ------------------------------------------------- the App's cut markers

\* Most cut markers a user adds by hand to a timeline, and most ids handed
\* out in a session.
MaxMarkers == 3

MaxIds == 3

\* file.duration of the audio file loaded.
AudioDuration == Cs(400)

\* The beat lists Timeline reports: a strong beat with a weak one 0.79 s
\* later, two strong beats 2 s apart (the second is a drop), and a lone
\* strong beat (a call for two cuts throws).
AppBeatLists ==
    {<<Beat(Cs(100), 50, "strong"), Beat(Cs(179), 10, "weak")>>,
     <<Beat(Cs(100), 50, "strong"), Beat(Cs(300), 50, "strong")>>,
     <<Beat(Cs(100), 50, "strong")>>}

\* The trim regions a user sets: the whole file and its first second.
AppRegions == {<<0, Cs(400)>>, <<0, Cs(100)>>}

\* The plan counts of the random mode dialog.
AppPlanCounts == {1, 2, 3}

\* The times a user clicks or drags to: 0.98 s is where the engine puts the
\* cut of the strong beat at 1.0 s.
AppTimes == {Cs(98), Cs(250)}

\* setCutMarkers(prev => [...prev, newCut].sort((a, b) => a.time - b.time)),
\* with newCut built from the cutMarkers the handler closed over.
AddCut(prev, closed, id, time) ==
    LET nextCut == First(SelectSeq(closed, LAMBDA cut : cut.time > time))
        defaultDuration == IF nextCut # <<>> THEN Min(nextCut[1].time - time, Sec)
                           ELSE Sec
        newCut == CutMarker(id, time, COLORS[(Len(closed) % Len(COLORS)) + 1],
                            defaultDuration)
    IN  SortByTime(Append(prev, newCut))

\* prev.filter(cut => cut.id !== id)
RemoveCut(prev, id) == SelectSeq(prev, LAMBDA cut : cut.id # id)

\* A move that leaves the list in the order it was.
MoveCutInPlace(prev, id, newTime) ==
    [i \in 1 .. Len(prev) |->
        IF prev[i].id = id THEN [prev[i] EXCEPT !.time = newTime] ELSE prev[i]]

\* prev.map(cut => cut.id === id ? { ...cut, time: newTime } : cut)
\*     .sort((a, b) => a.time - b.time)
MoveCut(prev, id, newTime) ==
    SortByTime([i \in 1 .. Len(prev) |->
                   IF prev[i].id = id THEN [prev[i] EXCEPT !.time = newTime]
                   ELSE prev[i]])

\* The handler called last and its arguments, kept for handleRemoveCut and
\* handleMoveCut.
Handler(name, id, time) == <<[handler |-> name, id |-> id, time |-> time]>>

Other == <<>>

\* What a handler that does not call the engine leaves alone.
engine == <<planCount, minCutInterval, cuts, pc, availableBeats, measures, drops,
            candidates, selectedCuts, result>>

\* The App after construction, before a file is loaded.
InitApp ==
    /\ audioFile = FALSE
    /\ beatMarkers = <<>>
    /\ cutMarkers = <<>>
    /\ startTime = 0
    /\ endTime = 0
    /\ planCount = 0
    /\ minCutInterval = Cs(80)
    /\ cuts = <<>>
    /\ pc = "idle"
    /\ Locals0
    /\ calls = <<>>

handleAudioLoad ==
    /\ pc = "idle"
    /\ audioFile' = TRUE
    /\ startTime' = 0
    /\ endTime' = AudioDuration
    /\ cutMarkers' = <<>>
    /\ beatMarkers' = <<>>
    /\ calls' = Other
    /\ UNCHANGED <<engine, uuidCount>>

\* The project is closed: no file, no markers, an empty region.
handleNewProject ==
    /\ pc = "idle"
    /\ audioFile' = FALSE
    /\ startTime' = 0
    /\ endTime' = 0
    /\ cutMarkers' = <<>>
    /\ beatMarkers' = <<>>
    /\ calls' = Other
    /\ UNCHANGED <<engine, uuidCount>>

handleBeatDetected ==
    /\ pc = "idle"
    /\ beatMarkers' \in AppBeatLists
    /\ calls' = Other
    /\ UNCHANGED <<engine, uuidCount, startTime, endTime, cutMarkers, audioFile>>

handleTrimChange ==
    /\ pc = "idle"
    /\ \E region \in AppRegions : startTime' = region[1] /\ endTime' = region[2]
    /\ calls' = Other
    /\ UNCHANGED <<engine, uuidCount, beatMarkers, cutMarkers, audioFile>>

\* if (!audioFile) return; otherwise a new cut with a fresh id is added.
handleAddCut ==
    /\ pc = "idle"
    /\ audioFile
    /\ Len(cutMarkers) < MaxMarkers
    /\ uuidCount < MaxIds
    /\ \E time \in AppTimes :
           /\ cutMarkers' = AddCut(cutMarkers, cutMarkers, uuidCount + 1, time)
           /\ calls' = Other
    /\ uuidCount' = uuidCount + 1
    /\ UNCHANGED <<engine, startTime, endTime, beatMarkers, audioFile>>

handleRemoveCut ==
    /\ pc = "idle"
    /\ \E id \in 1 .. uuidCount :
           /\ cutMarkers' = RemoveCut(cutMarkers, id)
           /\ calls' = Handler("handleRemoveCut", id, 0)
    /\ UNCHANGED <<engine, uuidCount, startTime, endTime, beatMarkers, audioFile>>

handleMoveCut ==
    /\ pc = "idle"
    /\ \E id \in 1 .. uuidCount, newTime \in AppTimes :
           /\ cutMarkers' = MoveCut(cutMarkers, id, newTime)
           /\ calls' = Handler("handleMoveCut", id, newTime)
    /\ UNCHANGED <<engine, uuidCount, startTime, endTime, beatMarkers, audioFile>>

\* if (!audioFile || beatMarkers.length === 0) return; otherwise
\* generateRandomCuts is called with the trim region, the plan count, the
\* beat markers and minCutInterval 0.8.
handleGenerateRandomCuts ==
    /\ pc = "idle"
    /\ audioFile
    /\ beatMarkers # <<>>
    /\ \E count \in AppPlanCounts :
           /\ uuidCount + Max(0, count - 1) <= MaxIds
           /\ planCount' = count
           /\ calls' = Other
    /\ minCutInterval' = Cs(80)
    /\ pc' = "start"
    /\ availableBeats' = <<>>
    /\ measures' = <<>>
    /\ drops' = <<>>
    /\ candidates' = <<>>
    /\ selectedCuts' = <<>>
    /\ result' = <<>>
    /\ UNCHANGED <<cuts, uuidCount, startTime, endTime, beatMarkers, cutMarkers,
                   audioFile>>

\* The steps of generateRandomCuts as App imports it from
\* ./utils/randomCutGenerator: those of the engine.
randomCutGenerator == Next

\* The handler is left: its parameter and the locals of the call are gone.
Left ==
    /\ pc' = "idle"
    /\ planCount' = 0
    /\ availableBeats' = <<>>
    /\ measures' = <<>>
    /\ drops' = <<>>
    /\ candidates' = <<>>
    /\ selectedCuts' = <<>>
    /\ result' = <<>>

\* setCutMarkers(newCuts) when the call has returned.
setCutMarkers ==
    /\ pc = "done"
    /\ cutMarkers' = result
    /\ Left
    /\ UNCHANGED <<startTime, endTime, beatMarkers, minCutInterval, cuts, uuidCount,
                   calls, audioFile>>

\* The call has thrown: the handler ends there and setCutMarkers is not
\* reached.
handleGenerateRandomCutsThrows ==
    /\ pc = "threw"
    /\ Left
    /\ UNCHANGED <<startTime, endTime, beatMarkers, minCutInterval, cuts, uuidCount,
                   calls, cutMarkers, audioFile>>

NextApp ==
    \/ handleAudioLoad
    \/ handleNewProject
    \/ handleBeatDetected
    \/ handleTrimChange
    \/ handleAddCut
    \/ handleRemoveCut
    \/ handleMoveCut
    \/ handleGenerateRandomCuts
    \/ randomCutGenerator
    \/ setCutMarkers
    \/ handleGenerateRandomCutsThrows

SpecApp == InitApp /\ [][NextApp]_vars

\* ------------------------------------------------------------- the claims

Returned == pc = "done"

Ended == pc \in {"done", "threw"}

\* A beat of the call's beat list lies strictly inside the region.
BeatInside == \E i \in 1 .. Len(beatMarkers) :
                  beatMarkers[i].time > startTime /\ beatMarkers[i].time < endTime

\* C1, count invariant: a call with planCount >= 2, startTime < endTime and
\* endTime - startTime >= (planCount - 1) * minCutInterval ends by returning
\* a list of exactly planCount - 1 cuts.
C1_CountInvariant ==
    (/\ Ended
     /\ planCount >= 2
     /\ startTime < endTime
     /\ endTime - startTime >= (planCount - 1) * minCutInterval)
    => (Returned /\ Len(result) = planCount - 1)

\* C2, spacing invariant: adjacent cuts of a returned list are at least
\* minCutInterval apart.
C2_SpacingInvariant ==
    Returned => \A i \in 1 .. Len(result) - 1 :
                    result[i + 1].time - result[i].time >= minCutInterval

C4_OrderingInvariant ==
    Returned => \A i \in 1 .. Len(result) - 1 : result[i].time < result[i + 1].time

\* C4 witness: a returned list of at least three cuts whose earliest cut was
\* not the first one selected (its colour is not the first colour), so the
\* final sort reordered the selection.
C4_Witness ==
    /\ Returned
    /\ Len(result) >= 3
    /\ Len(availableBeats) > 0
    /\ result[1].color # COLORS[1]

\* C5, drop inclusion: when cutsNeeded is at least the number of detected
\* drops, a call that detected drops ends with every drop in its result, as
\* a cut at dropTime - 0.05.
C5_DropInclusion ==
    (Ended /\ planCount - 1 >= Len(drops))
    => \A d \in 1 .. Len(drops) :
           \E i \in 1 .. Len(result) : result[i].time = drops[d].time - Cs(5)

\* C6, no partial or error outcome: a call never throws, and what it returns
\* is the empty list or a list of exactly planCount - 1 cuts.
C6_NoPartialOrError ==
    /\ pc # "threw"
    /\ Returned => (result = <<>> \/ Len(result) = planCount - 1)

\* C7, insufficient duration: a call with planCount >= 2 and
\* endTime - startTime < (planCount - 1) * minCutInterval returns the empty
\* list at once, whatever the beats, and selects no cut.
C7_InsufficientDuration ==
    (planCount >= 2 /\ endTime - startTime < (planCount - 1) * minCutInterval)
    => /\ pc \in {"start", "done"}
       /\ result = <<>>
       /\ selectedCuts = <<>>

\* C7 witness: the call with region 0..1, planCount 5, minCutInterval 0.8
\* and a beat inside the region has returned.
C7_Witness ==
    /\ Returned
    /\ startTime = 0 /\ endTime = Sec /\ planCount = 5 /\ minCutInterval = Cs(80)
    /\ BeatInside

\* C8, malformed plan count: a call with planCount < 2 returns the empty
\* list as its first step; the beats are never filtered, nothing is detected
\* or selected.
C8_MalformedPlanCount ==
    planCount < 2
    => /\ pc \in {"start", "done"}
       /\ result = <<>>
       /\ availableBeats = <<>> /\ candidates = <<>> /\ selectedCuts = <<>>

\* C8 witness: a call with planCount < 2, a region long enough for a cut and
\* a beat inside it has returned.
C8_Witness ==
    /\ Returned
    /\ planCount < 2
    /\ endTime - startTime >= minCutInterval
    /\ BeatInside

\* C9, equidistant fallback: when no beat lies strictly inside the region
\* and the duration check passes, the result is count = planCount - 1 cuts,
\* the i-th (from 0) at startTime + (i+1) * (endTime - startTime)/(count+1)
\* with duration min(1, 0.8 * interval) and colour COLORS[i mod 6]; for
\* region 0..20 and planCount 5 the cuts are at 4, 8, 12, 16 with duration 1.
C9_EquidistantFallback ==
    (/\ Returned
     /\ planCount >= 2
     /\ endTime - startTime >= (planCount - 1) * minCutInterval
     /\ ~BeatInside)
    => /\ Len(result) = planCount - 1
       /\ \A i \in 0 .. planCount - 2 :
              /\ result[i + 1].time * planCount
                     = startTime * planCount + (i + 1) * (endTime - startTime)
              /\ result[i + 1].duration * 5 * planCount
                     = Min(Sec * 5 * planCount, 4 * (endTime - startTime))
              /\ result[i + 1].color = COLORS[(i % 6) + 1]
       /\ (startTime = 0 /\ endTime = Cs(2000) /\ planCount = 5)
              => /\ [i \in 1 .. 4 |-> result[i].time]
                     = <<Cs(400), Cs(800), Cs(1200), Cs(1600)>>
                 /\ \A i \in 1 .. 4 : result[i].duration = Sec

\* C9 witness: the call with no beats, region 0..20 and planCount 5 has
\* returned four cuts.
C9_Witness ==
    /\ Returned
    /\ beatMarkers = <<>>
    /\ startTime = 0 /\ endTime = Cs(2000) /\ planCount = 5
    /\ Len(result) = 4

\* C10, duration optimizer non-overlap: after optimizeCutDurations on a
\* time-sorted list, every cut but the last has
\* time + duration <= the next cut's time.
C10_NonOverlap ==
    pc = "optimized"
    => \A i \in 1 .. Len(result) - 1 :
           result[i].time + result[i].duration <= result[i + 1].time

\* C11, idempotence of the duration optimizer: for every cut list and
\* endTime, the optimizer applied to its own result returns that result, in
\* order, times and durations.
C11_OptimizerIdempotent ==
    pc = "optimized twice" => result = cuts

\* C11 witness: the second application has returned for an argument list
\* that was out of time order and whose durations the first application cut
\* down.
C11_Witness ==
    /\ pc = "optimized twice"
    /\ Len(result) >= 2
    /\ \E i \in 1 .. Len(result) : result[i].id # i
    /\ \E i \in 1 .. Len(result) : result[i].duration < Cs(50)
                                     /\ result[i].duration # Cs(10)

\* The cut of a list that carries an id.
CutWithId(list, id) == list[CHOOSE i \in 1 .. Len(list) : list[i].id = id]

\* C12, duration optimizer frame: a call of optimizeCutDurations leaves its
\* argument as it was, and returns as many cuts, ordered by time, each with
\* the id, time and colour of one cut of the argument; only durations
\* differ.
C12_OptimizerFrame ==
    [][pc = "optimize"
       => /\ cuts' = cuts
          /\ Len(result') = Len(cuts)
          /\ {result'[i].id : i \in 1 .. Len(result')}
                 = {cuts[i].id : i \in 1 .. Len(cuts)}
          /\ \A i \in 1 .. Len(result') :
                 /\ result'[i].time = CutWithId(cuts, result'[i].id).time
                 /\ result'[i].color = CutWithId(cuts, result'[i].id).color
          /\ \A i \in 1 .. Len(result') - 1 :
                 result'[i].time <= result'[i + 1].time]_vars

\* C12 witness: the optimizer has returned for an argument list that was out
\* of time order, with a duration changed.
C12_Witness ==
    /\ pc = "optimized"
    /\ \E i \in 1 .. Len(cuts) - 1 : cuts[i].time > cuts[i + 1].time
    /\ \E i \in 1 .. Len(result) :
           result[i].duration # CutWithId(cuts, result[i].id).duration

\* What a caller sees of a returned list besides the ids.
TimesColoursDurations(list) ==
    [i \in 1 .. Len(list) |->
        [time |-> list[i].time, color |-> list[i].color, duration |-> list[i].duration]]

\* C13, determinism and statelessness: a call of generateRandomCuts ends as
\* every earlier call with equal startTime, endTime, planCount, beat list
\* and minCutInterval ended, whatever calls were made in between: if one
\* returned so did the other, with a list of equal length whose cuts agree
\* pairwise in time, colour and duration.
C13_Deterministic ==
    (pc \in {"done", "threw"})
    => \A k \in 1 .. Len(calls) :
           calls[k].arguments = arguments
           => /\ calls[k].returned = (pc = "done")
              /\ TimesColoursDurations(calls[k].result) = TimesColoursDurations(result)

\* C13 witness: a call has returned two cuts, with other ids, that the
\* first call with these arguments returned, after a call with other
\* arguments in between.
C13_Witness ==
    /\ pc = "done"
    /\ Len(calls) = 2
    /\ calls[1].arguments = arguments
    /\ calls[2].arguments # arguments
    /\ calls[2].result # <<>>
    /\ Len(result) = 2
    /\ \A i \in 1 .. 2 : result[i].id # calls[1].result[i].id

StrongBeats == SelectSeq(availableBeats, IsStrong)

\* C15, measure detection rejects sparse input: detectMeasures returns the
\* empty list whenever the in-region beat list has fewer than 8 beats or
\* fewer than 3 strong beats, whatever their times and intensities.
C15_SparseInput ==
    (/\ pc = "detected"
     /\ (Len(availableBeats) < 8 \/ Len(StrongBeats) < 3))
    => measures = <<>>

\* C15 witness: detectMeasures has returned the empty list for 7 beats of
\* which four are strong and exactly 1 s apart.
C15_Witness ==
    /\ pc = "detected"
    /\ Len(availableBeats) = 7
    /\ Len(StrongBeats) = 4
    /\ \A i \in 1 .. 3 : StrongBeats[i + 1].time - StrongBeats[i].time = Sec
    /\ measures = <<>>

\* The candidate list has been built.
CandidatesBuilt == pc \in {"candidates", "forced", "backfill", "done", "threw"}

\* The lead of a category of candidates: 50 ms for a drop, 30 ms for a
\* measure start and a measure midpoint, 20 ms for another strong beat.
LeadOf(reason) ==
    CASE reason = "drop" -> Cs(5)
      [] reason = "measure_start" -> Cs(3)
      [] reason = "measure_mid" -> Cs(3)
      [] reason = "strong_beat" -> Cs(2)

\* An in-region beat a candidate of this reason can have been built from: a
\* detected drop, a beat within 0.2 s of a measure start, a strong beat.
SourceBeat(candidate, beat) ==
    /\ beat.intensity = candidate.intensity
    /\ beat.type = candidate.type
    /\ CASE candidate.reason = "drop" ->
                \E d \in 1 .. Len(drops) : drops[d].time = beat.time
          [] candidate.reason = "measure_start" ->
                \E m \in 1 .. Len(measures) :
                    Abs(beat.time - measures[m].startTime) < Cs(20)
          [] OTHER -> IsStrong(beat)

RatAtMost(a, b) == ~RatLess(b, a)

\* C17, priority bands: each candidate's priority lies in the band of its
\* reason (drop = 100, measure_start in [80, 100], measure_mid in [60, 80],
\* strong_beat in [40, 60]); hence every priority is within 0..100 and a
\* strong_beat candidate never outranks a measure_start candidate.
C17_PriorityBands ==
    CandidatesBuilt
    => /\ \A k \in 1 .. Len(candidates) :
              LET priority == candidates[k].priority
                  reason == candidates[k].reason
                  low == CASE reason = "drop" -> 100
                           [] reason = "measure_start" -> 80
                           [] reason = "measure_mid" -> 60
                           [] reason = "strong_beat" -> 40
                  high == IF reason = "drop" THEN 100 ELSE low + 20
              IN  /\ RatAtMost(Rat(low, 1), priority)
                  /\ RatAtMost(priority, Rat(high, 1))
                  /\ RatAtMost(Rat(0, 1), priority)
                  /\ RatAtMost(priority, Rat(100, 1))
       /\ \A k, l \in 1 .. Len(candidates) :
              (candidates[k].reason = "strong_beat"
               /\ candidates[l].reason = "measure_start")
              => RatAtMost(candidates[k].priority, candidates[l].priority)

\* The i-th strong beat (i >= 2, counting from 1) follows the strong beat
\* before it by at least 1.2 s and has an intensity above 0.2.
AfterSilence(i) ==
    /\ StrongBeats[i].time - StrongBeats[i - 1].time >= Cs(120)
    /\ StrongBeats[i].intensity > 20

\* C18, drop detector: the drops are, in order, the strong beats other than
\* the first that follow the strong beat before them by at least 1.2 s and
\* have intensity above 0.2, each with that gap as silenceDuration; the
\* first strong beat and the weak and medium beats are never drops, and
\* weak or medium beats between two strong beats do not shorten the gap.
C18_DropDetector ==
    pc = "detected"
    => /\ \A d \in 1 .. Len(drops) :
              \E i \in 2 .. Len(StrongBeats) :
                  /\ AfterSilence(i)
                  /\ drops[d] = [time |-> StrongBeats[i].time,
                                 intensity |-> StrongBeats[i].intensity,
                                 type |-> "strong",
                                 isDrop |-> TRUE,
                                 silenceDuration |->
                                     StrongBeats[i].time - StrongBeats[i - 1].time]
       /\ \A i \in 2 .. Len(StrongBeats) :
              AfterSilence(i)
              => \E d \in 1 .. Len(drops) : drops[d].time = StrongBeats[i].time
       /\ \A d \in 1 .. Len(drops) - 1 : drops[d].time < drops[d + 1].time
       /\ \A d \in 1 .. Len(drops) :
              /\ drops[d].time # StrongBeats[1].time
              /\ \A b \in 1 .. Len(availableBeats) :
                     availableBeats[b].time = drops[d].time
                     => availableBeats[b].type = "strong"

\* C18 witness: the detector has returned a drop exactly 1.2 s after the
\* strong beat before it, with a weak or medium beat in between, and has
\* passed over a strong beat of intensity 0.2 after 1.2 s or more and a
\* strong beat 1.0 s after the one before.
C18_Witness ==
    /\ pc = "detected"
    /\ \E d \in 1 .. Len(drops) :
           /\ drops[d].silenceDuration = Cs(120)
           /\ \E b \in 1 .. Len(availableBeats) :
                  /\ ~IsStrong(availableBeats[b])
                  /\ availableBeats[b].time < drops[d].time
                  /\ availableBeats[b].time > drops[d].time - Cs(120)
    /\ \E i \in 2 .. Len(StrongBeats) :
           /\ StrongBeats[i].intensity = 20
           /\ StrongBeats[i].time - StrongBeats[i - 1].time >= Cs(120)
    /\ \E i \in 2 .. Len(StrongBeats) :
           /\ StrongBeats[i].intensity > 20
           /\ StrongBeats[i].time - StrongBeats[i - 1].time = Sec

\* The measures are what the walk over the strong beats accepts when
\* expected[j] is the expected downbeat after j acceptances (as a multiple
\* of 1/len, the mean measure duration being sum/len): every measure is a
\* strong beat, in order, within 0.3 mean durations of the downbeat expected
\* when it is reached, with confidence max(0.1, 1 - diff/mean); every other
\* strong beat is not within 0.3 mean durations of the downbeat expected
\* when it is reached.
WalkAccepts(expected, sum, len) ==
    LET Index(j) == CHOOSE i \in 1 .. Len(StrongBeats) :
                        StrongBeats[i].time = measures[j].startTime
        Diff(i, j) == Abs(StrongBeats[i].time * len - expected[j])
        Within(i, j) == 10 * Diff(i, j) < 3 * sum
        AcceptedBefore(i) == Cardinality({j \in 1 .. Len(measures) : Index(j) < i})
    IN  /\ \A j \in 1 .. Len(measures) :
               \E i \in 1 .. Len(StrongBeats) :
                   StrongBeats[i].time = measures[j].startTime
        /\ \A j \in 1 .. Len(measures) - 1 : Index(j) < Index(j + 1)
        /\ \A j \in 1 .. Len(measures) :
               /\ Within(Index(j), j - 1)
               /\ measures[j].confidence
                      = RatMax(Rat(1, 10), Rat(sum - Diff(Index(j), j - 1), sum))
        /\ \A i \in 1 .. Len(StrongBeats) :
               (\A j \in 1 .. Len(measures) : Index(j) # i)
               => ~Within(i, AcceptedBefore(i))

\* detectMeasures has reached its grid walk: the mean measure duration
\* exists.
WalkDone == pc = "detected" /\ AverageMeasureDuration(availableBeats) # <<>>

\* C19, measure grid walk, as claimed: the expected downbeat starts at the
\* first strong beat; a strong beat is accepted iff it is within
\* 0.3 * averageMeasureDuration of the expected downbeat, with confidence
\* max(0.1, 1 - diff/averageMeasureDuration); the k-th expected downbeat is
\* firstStrongTime + k * averageMeasureDuration.
C19_GridWalk ==
    WalkDone
    => LET avg == AverageMeasureDuration(availableBeats)
       IN  WalkAccepts([j \in 0 .. Len(measures) |->
                           StrongBeats[1].time * avg[2] + j * avg[1]],
                       avg[1], avg[2])

\* C19 as amended: the same walk, but after each acceptance the expected
\* downbeat becomes the accepted beat's time + averageMeasureDuration.
C19_AnchoredWalk ==
    WalkDone
    => LET avg == AverageMeasureDuration(availableBeats)
       IN  WalkAccepts([j \in 0 .. Len(measures) |->
                           IF j = 0 THEN StrongBeats[1].time * avg[2]
                           ELSE measures[j].startTime * avg[2] + avg[1]],
                       avg[1], avg[2])

\* C19 witness: the walk has accepted three strong beats or more, one of
\* them off its expected downbeat, and passed over a strong beat.
C19_Witness ==
    /\ WalkDone
    /\ Len(measures) >= 3
    /\ \E j \in 1 .. Len(measures) : measures[j].confidence # Rat(1, 1)
    /\ Len(StrongBeats) > Len(measures)

\* The order in which the categories of candidates are discovered; within a
\* category the candidates are discovered in order of time.
Discovery(reason) ==
    CASE reason = "drop" -> 1
      [] reason = "measure_start" -> 2
      [] reason = "measure_mid" -> 3
      [] reason = "strong_beat" -> 4

\* The selection loop took the list of cuts from before to after: after
\* keeps before and adds cuts at the times of non-drop candidates, in the
\* order of the candidate list, which is by descending priority; a
\* candidate is accepted iff fewer than cutsNeeded cuts were selected when
\* it was examined and its time was at least minCutInterval from each of
\* them.
GreedySelection(before, after) ==
    LET New == Len(before) + 1 .. Len(after)
        NonDrop == {k \in 1 .. Len(candidates) : candidates[k].reason # "drop"}
        \* the candidate a new cut was taken from
        Source(i) == CHOOSE k \in NonDrop :
                         /\ candidates[k].time = after[i].time
                         /\ \A l \in NonDrop :
                                candidates[l].time = after[i].time => k <= l
        Accepted == {Source(i) : i \in New}
        \* the number of cuts selected when candidate k is examined
        SelectedAt(k) == Len(before) + Cardinality({i \in New : Source(i) < k})
        Spaced(k) == \A i \in 1 .. SelectedAt(k) :
                         Abs(after[i].time - candidates[k].time) >= minCutInterval
    IN  /\ Len(after) >= Len(before)
        /\ SubSeq(after, 1, Len(before)) = before
        /\ \A k \in 1 .. Len(candidates) - 1 :
               ~RatLess(candidates[k].priority, candidates[k + 1].priority)
        /\ \A k, l \in 1 .. Len(candidates) :
               (k < l /\ candidates[k].priority = candidates[l].priority)
               => \/ Discovery(candidates[k].reason) < Discovery(candidates[l].reason)
                  \/ /\ candidates[k].reason = candidates[l].reason
                     /\ candidates[k].time < candidates[l].time
        /\ \A i \in New : \E k \in NonDrop : candidates[k].time = after[i].time
        /\ \A i, j \in New : i < j => Source(i) < Source(j)
        /\ \A k \in NonDrop :
               k \in Accepted <=> (SelectedAt(k) < cutsNeeded /\ Spaced(k))
        \* so: a skipped candidate ahead of an accepted one is within
        \* minCutInterval of a cut selected before it
        /\ \A k \in NonDrop \ Accepted :
               (\E l \in Accepted : k < l)
               => \E i \in 1 .. SelectedAt(k) :
                      Abs(after[i].time - candidates[k].time) < minCutInterval

\* C20, greedy selection (step 2): after the drops, the non-drop candidates
\* are examined in descending priority (ties in discovery order) and a
\* candidate is accepted iff fewer than cutsNeeded cuts are selected so far
\* and its time is at least minCutInterval from every already-selected cut;
\* so every skipped candidate that outranks an accepted one lies within
\* minCutInterval of a cut selected before it.
C20_GreedySelection ==
    [][pc = "forced" => GreedySelection(selectedCuts, selectedCuts')]_vars

\* C20 witness: the selection loop has run after a forced drop and has
\* accepted a candidate that comes after a skipped non-drop candidate.
C20_Witness ==
    /\ pc = "backfill"
    /\ \E k \in 1 .. Len(candidates) : candidates[k].reason = "drop"
    /\ \E k, l \in 1 .. Len(candidates) :
           /\ k < l
           /\ candidates[k].reason # "drop"
           /\ candidates[l].reason # "drop"
           /\ \A i \in 1 .. Len(selectedCuts) :
                  selectedCuts[i].time # candidates[k].time
           /\ \E i \in 1 .. Len(selectedCuts) :
                  /\ selectedCuts[i].time = candidates[l].time
                  /\ i > Cardinality({d \in 1 .. Len(candidates) :
                                         candidates[d].reason = "drop"})

\* The in-region beats at least minCutInterval from every selected cut.
BeatsFree ==
    {b \in 1 .. Len(availableBeats) :
        \A i \in 1 .. Len(selectedCuts) :
            Abs(selectedCuts[i].time - availableBeats[b].time) >= minCutInterval}

\* |beat time - idealTime| * (cutsNeeded + 1) for beat b, where
\* idealTime = startTime + k * activeDuration / (cutsNeeded + 1) and
\* k = number of selected cuts + 1.
FromIdeal(b) ==
    Abs(availableBeats[b].time * planCount
        - (startTime * planCount + (Len(selectedCuts) + 1) * activeDuration))

\* The backfill loop is about to run an iteration.
BackfillDue == pc = "backfill" /\ Len(selectedCuts) < cutsNeeded

\* An iteration with a free beat adds one cut, 20 ms before a free beat
\* nearest to idealTime, clamped to startTime + 0.05.
BackfillFromBeat ==
    (BackfillDue /\ BeatsFree # {})
    => /\ Len(selectedCuts') = Len(selectedCuts) + 1
       /\ SubSeq(selectedCuts', 1, Len(selectedCuts)) = selectedCuts
       /\ \E b \in BeatsFree :
              /\ \A c \in BeatsFree : FromIdeal(b) <= FromIdeal(c)
              /\ selectedCuts'[Len(selectedCuts')].time
                     = Max(startTime + Cs(5), availableBeats[b].time - Cs(2))

\* An iteration without a free beat adds one cut exactly at idealTime.
BackfillSynthetic ==
    (BackfillDue /\ BeatsFree = {})
    => /\ Len(selectedCuts') = Len(selectedCuts) + 1
       /\ SubSeq(selectedCuts', 1, Len(selectedCuts)) = selectedCuts
       /\ selectedCuts'[Len(selectedCuts')].time * planCount
              = startTime * planCount + (Len(selectedCuts) + 1) * activeDuration

\* C21, backfill (step 3): while fewer than cutsNeeded cuts are selected,
\* the in-region beat nearest to idealTime among the beats at least
\* minCutInterval from every selected cut is added at
\* max(startTime + 0.05, beatTime - 0.02); when no such beat exists, a
\* synthetic cut is added exactly at idealTime.
C21_Backfill ==
    [][BackfillFromBeat /\ BackfillSynthetic]_vars

\* Candidate k can have been produced by the in-region beat b.
Produced(k, b) ==
    /\ SourceBeat(candidates[k], availableBeats[b])
    /\ candidates[k].time
           = Max(startTime + Cs(5),
                 availableBeats[b].time - LeadOf(candidates[k].reason))

\* C22, candidate deduplication: every detected drop has its candidate; a
\* measure_start, measure_mid or strong_beat candidate was added only when
\* no candidate of an earlier rule is within 0.1 s of its beat's time; and
\* no beat has produced two candidates.
C22_Deduplication ==
    CandidatesBuilt
    => /\ \A d \in 1 .. Len(drops) :
              \E k \in 1 .. Len(candidates) :
                  /\ candidates[k].reason = "drop"
                  /\ candidates[k].time = Max(startTime + Cs(5), drops[d].time - Cs(5))
       /\ Cardinality({k \in 1 .. Len(candidates) : candidates[k].reason = "drop"})
              = Len(drops)
       /\ \A l \in 1 .. Len(candidates) :
              candidates[l].reason # "drop"
              => \E b \in 1 .. Len(availableBeats) :
                     /\ Produced(l, b)
                     /\ \A k \in 1 .. Len(candidates) :
                            Discovery(candidates[k].reason) < Discovery(candidates[l].reason)
                            => Abs(candidates[k].time - availableBeats[b].time) >= Cs(10)
       /\ \A b \in 1 .. Len(availableBeats) :
              \A k, l \in 1 .. Len(candidates) :
                  (Produced(k, b) /\ Produced(l, b)) => k = l

\* Candidates of all four rules are built; a detected drop is also a measure
\* start, and a strong beat is the beat of a measure-start candidate, so
\* later rules have skipped beats that earlier rules cover.
C22_Witness ==
    /\ pc = "candidates"
    /\ \A r \in {"drop", "measure_start", "measure_mid", "strong_beat"} :
           \E k \in 1 .. Len(candidates) : candidates[k].reason = r
    /\ \E d \in 1 .. Len(drops), m \in 1 .. Len(measures) :
           drops[d].time = measures[m].startTime
    /\ \E b \in 1 .. Len(availableBeats), k \in 1 .. Len(candidates) :
           /\ IsStrong(availableBeats[b])
           /\ candidates[k].reason = "measure_start"
           /\ Produced(k, b)

\* The strong-beat intervals lying in (0.8 s, 6 s), sorted ascending.
SortedIntervals == SortAscending(MeasureIntervals(StrongBeats))

\* Positions lo .. hi of a sorted list are a cluster: neighbours inside
\* differ by less than 0.3 s, the neighbours outside by 0.3 s or more.
IsClusterOf(sorted, lo, hi) ==
    /\ lo <= hi
    /\ \A i \in lo + 1 .. hi : sorted[i] - sorted[i - 1] < Cs(30)
    /\ lo = 1 \/ sorted[lo] - sorted[lo - 1] >= Cs(30)
    /\ hi = Len(sorted) \/ sorted[hi + 1] - sorted[hi] >= Cs(30)

IsCluster(lo, hi) == IsClusterOf(SortedIntervals, lo, hi)

\* The cluster with the most members, the first such cluster on a tie, as
\* the pair <<lo, hi>> of positions (there is one when an interval exists).
Dominant ==
    LET sorted == SortedIntervals
        n == Len(sorted)
        all == {r \in (1 .. n) \X (1 .. n) : IsClusterOf(sorted, r[1], r[2])}
    IN  CHOOSE r \in all :
            \A q \in all :
                \/ q[2] - q[1] < r[2] - r[1]
                \/ q[2] - q[1] = r[2] - r[1] /\ q[1] >= r[1]

\* C23, dominant cluster: detectMeasures returns the empty list when fewer
\* than 2 strong-beat intervals lie in (0.8 s, 6 s) or the dominant cluster
\* of the sorted intervals (split where neighbours differ by 0.3 s or more;
\* most members, first on a tie) has fewer than 2 members; otherwise, with
\* 8 beats and 3 strong beats or more, the measures are those of the grid
\* walk with the mean of the dominant cluster as averageMeasureDuration.
C23_DominantCluster ==
    pc = "detected"
    => LET strong == StrongBeats
           sorted == SortedIntervals
           dominant == Dominant
       IN  IF Len(sorted) < 2 \/ dominant[2] - dominant[1] + 1 < 2
           THEN measures = <<>>
           ELSE (Len(availableBeats) >= 8 /\ Len(strong) >= 3)
                => measures
                       = MeasureWalk(strong,
                                     SumSeq(SubSeq(sorted, dominant[1], dominant[2])),
                                     dominant[2] - dominant[1] + 1,
                                     Len(strong)).measures

\* The sorted intervals fall into two clusters of two, 0.3 s apart, and the
\* longer intervals come first in the beat list; the walk with the mean of
\* the shorter ones passes over a strong beat.
C23_Witness ==
    /\ pc = "detected"
    /\ Len(SortedIntervals) = 4
    /\ IsCluster(1, 2) /\ IsCluster(3, 4)
    /\ SortedIntervals[3] - SortedIntervals[2] = Cs(30)
    /\ StrongBeats[2].time - StrongBeats[1].time = SortedIntervals[4]
    /\ measures # <<>>
    /\ Len(measures) < Len(StrongBeats)

\* The cuts of a list have the colours of the palette in the order of the
\* list: the k-th (k = 0, 1, ...) has COLORS[k mod 6].
ColouredInOrder(list) ==
    \A j \in 1 .. Len(list) : list[j].color = COLORS[((j - 1) % 6) + 1]

\* The colours of a list are pairwise distinct.
DistinctColours(list) ==
    \A i, j \in 1 .. Len(list) : list[i].color = list[j].color => i = j

\* C24, colours by selection order: in the beat-driven path the list of
\* selected cuts, in the order of selection (drops, scored candidates,
\* backfill), has the colours COLORS[k mod 6]; the final sort and the
\* optimizer return every selected cut with the time and colour it was
\* selected with; so every colour of the result is of the palette, and a
\* result of at most 6 cuts has pairwise distinct colours.
C24_ColoursBySelection ==
    [][/\ pc' \in {"forced", "backfill"} => ColouredInOrder(selectedCuts')
       /\ (pc = "backfill" /\ pc' = "done")
           => /\ ColouredInOrder(selectedCuts)
              /\ Len(result') = Len(selectedCuts)
              /\ \A j \in 1 .. Len(selectedCuts) :
                     \E i \in 1 .. Len(result') :
                         /\ result'[i].id = selectedCuts[j].id
                         /\ result'[i].time = selectedCuts[j].time
                         /\ result'[i].color = selectedCuts[j].color
              /\ \A i \in 1 .. Len(result') :
                     \E c \in 1 .. 6 : result'[i].color = COLORS[c]
              /\ Len(result') <= 6 => DistinctColours(result')]_vars

\* A beat-driven result of three cuts or more, selected from a drop, scored
\* candidates and backfill, whose colours are not in palette order by time.
C24_Witness ==
    /\ Returned
    /\ drops # <<>>
    /\ Len(result) >= 3
    /\ Len(candidates) < Len(result)
    /\ Len(drops) < Len(candidates)
    /\ ~ColouredInOrder(result)

\* The subsequence of the beats of an argument list
\* <<startTime, endTime, planCount, beatMarkers, minCutInterval>> that lie
\* strictly inside (startTime, endTime).
BeatsInside(a) ==
    SelectSeq(a[4], LAMBDA beat : beat.time > a[1] /\ beat.time < a[2])

\* Two argument lists that differ at most in beats outside the region.
SameInside(a, b) ==
    /\ a[1] = b[1] /\ a[2] = b[2] /\ a[3] = b[3] /\ a[5] = b[5]
    /\ BeatsInside(a) = BeatsInside(b)

\* C25, beats outside the region do not interfere: a call ends as every
\* earlier call did whose arguments differ at most in beats with
\* time <= startTime or time >= endTime: both return or neither, the cut
\* lists agree in times, colours and durations, and the same measures and
\* drops were detected; the beats the detectors saw are those strictly
\* inside the region.
C25_OutsideBeats ==
    Ended
    => /\ \A k \in 1 .. Len(calls) :
              SameInside(calls[k].arguments, arguments)
              => /\ calls[k].returned = Returned
                 /\ TimesColoursDurations(calls[k].result) = TimesColoursDurations(result)
                 /\ calls[k].measures = measures
                 /\ calls[k].drops = drops
       /\ \A m \in 1 .. Len(measures) :
              measures[m].startTime > startTime /\ measures[m].startTime < endTime
       /\ \A d \in 1 .. Len(drops) :
              drops[d].time > startTime /\ drops[d].time < endTime

\* A call with beats before the region, on both its bounds and after it has
\* returned after a call with the same beats inside the region and no
\* others, and a drop was detected.
C25_Witness ==
    /\ Returned
    /\ result # <<>>
    /\ drops # <<>>
    /\ \E i, j \in 1 .. Len(beatMarkers) :
           beatMarkers[i].time = startTime /\ beatMarkers[j].time = endTime
    /\ \E i, j \in 1 .. Len(beatMarkers) :
           beatMarkers[i].time < startTime /\ beatMarkers[j].time > endTime
    /\ \E k \in 1 .. Len(calls) :
           /\ SameInside(calls[k].arguments, arguments)
           /\ calls[k].arguments[4] = BeatsInside(arguments)

\* The number of steps a call can still take: one for each statement group
\* up to the backfill loop, then one for each cut still missing and one to
\* return.
StepsLeft ==
    LET loop == 1 + Max(0, cutsNeeded - Len(selectedCuts))
        most == 1 + Max(0, cutsNeeded)
    IN  CASE pc = "start" -> most + 5
          [] pc = "filtered" -> most + 4
          [] pc = "detected" -> most + 3
          [] pc = "candidates" -> most + 2
          [] pc = "forced" -> most + 1
          [] pc = "backfill" -> loop
          [] OTHER -> 0

\* An iteration of the backfill loop adds exactly one cut or aborts.
OneCutOrAbort ==
    BackfillDue
    => \/ /\ pc' = "backfill"
          /\ Len(selectedCuts') = Len(selectedCuts) + 1
          /\ SubSeq(selectedCuts', 1, Len(selectedCuts)) = selectedCuts
       \/ /\ pc' = "threw"
          /\ selectedCuts' = selectedCuts

\* In a call all of whose cuts are backfilled (there is no candidate) with
\* minCutInterval > 0.02, an iteration does not take a beat that an earlier
\* iteration took: the cut it adds, 20 ms before its beat or at
\* startTime + 0.05, is at no earlier cut's time.
NeverBackfilledTwice ==
    (BackfillDue /\ candidates = <<>> /\ minCutInterval > Cs(2) /\ pc' = "backfill")
    => \A j \in 1 .. Len(selectedCuts) :
           selectedCuts[j].time # selectedCuts'[Len(selectedCuts')].time

\* C26, termination of selection: every step of a call brings its end
\* nearer (the number of steps left decreases and is never negative), so the
\* call terminates; an iteration of the backfill loop adds exactly one cut
\* or aborts, the loop runs at most cutsNeeded iterations, and the same beat
\* is never backfilled twice when minCutInterval > 0.02.
C26_Termination ==
    [][/\ StepsLeft' < StepsLeft
       /\ StepsLeft' >= 0
       /\ OneCutOrAbort
       /\ pc = "backfill" => Len(selectedCuts) <= cutsNeeded
       /\ NeverBackfilledTwice]_vars

\* C27, duration range of the output: with minCutInterval = 0.8 every cut
\* returned by generateRandomCuts, from the beat-driven path or the
\* equidistant fallback, has 0.3 <= duration <= 1; and optimizeCutDurations,
\* called by generateRandomCuts or on its own, gives no cut a duration
\* longer than the one it had.
C27_DurationRange ==
    [][/\ (pc' = "done" /\ minCutInterval = Cs(80))
           => \A i \in 1 .. Len(result') :
                  result'[i].duration >= Cs(30) /\ result'[i].duration <= Sec
       /\ (pc = "backfill" /\ pc' = "done")
           => \A j \in 1 .. Len(selectedCuts) :
                  CutWithId(result', selectedCuts[j].id).duration
                      <= selectedCuts[j].duration
       /\ pc = "optimize"
           => \A j \in 1 .. Len(cuts) :
                  CutWithId(result', cuts[j].id).duration <= cuts[j].duration]_vars

\* With minCutInterval = 0.8 the fallback has returned a cut shorter than
\* 0.5 s (region 0..1, planCount 2: one cut of 0.4 s).
C27_Witness ==
    /\ Returned
    /\ minCutInterval = Cs(80)
    /\ ~BeatInside
    /\ \E i \in 1 .. Len(result) : result[i].duration < Cs(50)

\* detectMeasures has passed its gates: 8 beats or more, 3 strong beats or
\* more, 2 intervals or more in range, a dominant cluster of 2 or more.
GatesPassed ==
    /\ pc = "detected"
    /\ Len(availableBeats) >= 8
    /\ Len(StrongBeats) >= 3
    /\ Len(SortedIntervals) >= 2
    /\ LET dominant == Dominant IN dominant[2] - dominant[1] + 1 >= 2

\* averageMeasureDuration as the fraction <<sum, number>> of the dominant
\* cluster.
DominantMean ==
    LET dominant == Dominant
    IN  <<SumSeq(SubSeq(SortedIntervals, dominant[1], dominant[2])),
          dominant[2] - dominant[1] + 1>>

\* The strong beats within 0.3 * averageMeasureDuration of the downbeat
\* expected when they are reached, which is the first strong beat's time at
\* first and the last such beat's time + averageMeasureDuration later on:
\* the accepted beats, whatever their confidence.
RECURSIVE AcceptedBeats(_, _, _)
AcceptedBeats(i, strong, mean) ==
    IF i = 0 THEN <<>>
    ELSE LET prev == AcceptedBeats(i - 1, strong, mean)
             expected == IF prev = <<>> THEN strong[1].time * mean[2]
                         ELSE prev[Len(prev)] * mean[2] + mean[1]
         IN  IF 10 * Abs(strong[i].time * mean[2] - expected) < 3 * mean[1]
             THEN Append(prev, strong[i].time)
             ELSE prev

\* C28, measure confidence: when detectMeasures passes its gates its result
\* is not empty, its first measure is the first strong beat with confidence
\* 1, every returned measure has 0.7 < confidence <= 1, and the returned
\* measures are all the accepted beats: the filter confidence > 0.4 removes
\* none.
C28_MeasureConfidence ==
    GatesPassed
    => LET strong == StrongBeats
           mean == DominantMean
       IN  /\ measures # <<>>
           /\ measures[1].startTime = strong[1].time
           /\ measures[1].confidence = Rat(1, 1)
           /\ \A m \in 1 .. Len(measures) :
                  /\ RatLess(Rat(7, 10), measures[m].confidence)
                  /\ RatAtMost(measures[m].confidence, Rat(1, 1))
           /\ [m \in 1 .. Len(measures) |-> measures[m].startTime]
                  = AcceptedBeats(Len(strong), strong, mean)

\* The gates are passed, four measures are returned, one of them with a
\* confidence below 0.8, and a strong beat is not a measure.
C28_Witness ==
    /\ GatesPassed
    /\ Len(measures) >= 4
    /\ \E m \in 1 .. Len(measures) : RatLess(measures[m].confidence, Rat(8, 10))
    /\ Len(measures) < Len(StrongBeats)

\* The downbeat expected when strong beat i is reached, times the size of
\* the dominant cluster: the last measure before the beat +
\* averageMeasureDuration (strong beat i is not the first).
ExpectedAt(i, strong, mean) ==
    LET before == {m \in 1 .. Len(measures) :
                      measures[m].startTime < strong[i].time}
        last == CHOOSE m \in before : \A o \in before : o <= m
    IN  measures[last].startTime * mean[2] + mean[1]

\* C29, measure grid spacing: the measures returned by detectMeasures are
\* strictly ascending in startTime; two consecutive ones are more than 0.7
\* and less than 1.3 times averageMeasureDuration apart; and after a strong
\* beat later than the expected downbeat + 0.3 * averageMeasureDuration, no
\* strong beat is accepted as a measure start.
C29_GridSpacing ==
    GatesPassed
    => LET strong == StrongBeats
           mean == DominantMean
       IN  /\ \A m \in 1 .. Len(measures) - 1 :
                  LET apart == (measures[m + 1].startTime - measures[m].startTime)
                                   * mean[2]
                  IN  /\ measures[m].startTime < measures[m + 1].startTime
                      /\ 10 * apart > 7 * mean[1]
                      /\ 10 * apart < 13 * mean[1]
           /\ \A i \in 2 .. Len(strong) :
                  10 * (strong[i].time * mean[2] - ExpectedAt(i, strong, mean))
                      > 3 * mean[1]
                  => \A m \in 1 .. Len(measures) :
                         measures[m].startTime < strong[i].time

\* Two measures or more are returned, two consecutive ones less than 0.8
\* times averageMeasureDuration apart, and a strong beat too late for the
\* expected downbeat is followed by another strong beat.
C29_Witness ==
    /\ GatesPassed
    /\ LET strong == StrongBeats
           mean == DominantMean
       IN  /\ \E m \in 1 .. Len(measures) - 1 :
                  10 * (measures[m + 1].startTime - measures[m].startTime) * mean[2]
                      < 8 * mean[1]
           /\ \E i \in 2 .. Len(strong) - 1 :
                  10 * (strong[i].time * mean[2] - ExpectedAt(i, strong, mean))
                      > 3 * mean[1]

\* A list of cut markers is sorted ascending by time.
SortedByTime(list) ==
    \A i \in 1 .. Len(list) - 1 : list[i].time <= list[i + 1].time

\* The handler whose call a step belongs to.
Called(name) == calls' # <<>> /\ calls'[1].handler = name

====
